---------------------------- MODULE Spec2Model ----------------------------
(***************************************************************************)
(* Model of llama-cpp-2's sampler chain wrapper:                           *)
(*   src/llama-cpp-2/src/sampler_chain.rs         (LlamaSampler)           *)
(*   src/llama-cpp-2/src/sampler_chain/params.rs  (LlamaSamplerChainParams)*)
(*                                                                         *)
(* The Rust code is a forwarding layer: every method makes one call into   *)
(* the native library (llama_cpp_sys_2, llama_sampler_...).  The wrapper is*)
(* modelled from its source.  The native library is not part of the two    *)
(* source files; the operators that stand for it (their names start with   *)
(* llama_, or are the distribution/stage algorithms they use) are modelled *)
(* from the specification document (sections 3, 4 and 7).                  *)
(*                                                                         *)
(* Numbers: logits are small integers read as base-2 logarithms, so the    *)
(* probability of a candidate is proportional to 2^val.  p parameters are  *)
(* percentages (50 stands for 0.5).                                        *)
(*                                                                         *)
(* Of the thirteen add_* methods six are modelled (dist, top_k, top_p,     *)
(* penalties, greedy, mirostat_v2); the other seven have the same body     *)
(* (init, expect non-null, chain_add, return self).                        *)
(***************************************************************************)
EXTENDS Integers, Sequences, FiniteSets, TLC

(***************************************************************************)
(* Bounds of the model.                                                    *)
(***************************************************************************)
\* longest stage list that is built
MaxStages == 2
\* most sample/accept/reset calls made on one chain
MaxCalls == 3
\* size of the non-empty vocabulary (token ids 0 .. NVocab-1)
NVocab == 2
\* largest raw logit the inference engine hands over
MaxScore == 1
\* most with_no_perf calls made on one params value
MaxWith == 4
\* most calls replayed after the reset in the replay specification
MaxReplay == 2

(***************************************************************************)
(* Integer widths.  TLC's integers are 32 bits wide, so u32 and i32 are    *)
(* modelled IndexBits wide: the index is unsigned IndexBits bits, the      *)
(* native index signed IndexBits bits.                                     *)
(***************************************************************************)
IndexBits == 4

Min(a, b) == IF a < b THEN a ELSE b
Max(a, b) == IF a > b THEN a ELSE b

RECURSIVE Pow2(_)
Pow2(n) == IF n <= 0 THEN 1 ELSE 2 * Pow2(n - 1)

\* i32::MAX, the largest index i32::try_from accepts
I32Max == Pow2(IndexBits - 1) - 1
\* u32::MAX, the largest index the caller can pass
U32Max == Pow2(IndexBits) - 1

\* Option<u32>, the idx argument
None == [some |-> FALSE, v |-> 0]
Some(i) == [some |-> TRUE, v |-> i]
\* the id the native sample returns when no token was selected
NoToken == 0 - 1

Tokens == 0 .. (NVocab - 1)
Scores == 0 .. MaxScore

(***************************************************************************)
(* Distribution operations (specification 4.1).                            *)
(***************************************************************************)
\* one entry per vocabulary id, equal to its index
from_logits(scores) ==
    [i \in 1 .. Len(scores) |-> [id |-> i - 1, val |-> scores[i]]]

Better(a, b) == a.val > b.val \/ (a.val = b.val /\ a.id < b.id)

Best(cur) ==
    CHOOSE i \in 1 .. Len(cur) :
        \A j \in 1 .. Len(cur) : j = i \/ Better(cur[i], cur[j])

RemoveAt(s, i) == SubSeq(s, 1, i - 1) \o SubSeq(s, i + 1, Len(s))

\* by value descending, ties by ascending token id
RECURSIVE sort_descending(_)
sort_descending(cur) ==
    IF cur = <<>> THEN <<>>
    ELSE LET i == Best(cur)
         IN  <<cur[i]>> \o sort_descending(RemoveAt(cur, i))

MinVal(cur) ==
    CHOOSE v \in {cur[i].val : i \in 1 .. Len(cur)} :
        \A i \in 1 .. Len(cur) : v <= cur[i].val

\* softmax numerator of entry i: 2^(val - min val); the common factor cancels
Weight(cur, i) == Pow2(cur[i].val - MinVal(cur))

RECURSIVE CumWeight(_, _)
CumWeight(cur, k) == IF k = 0 THEN 0 ELSE Weight(cur, k) + CumWeight(cur, k - 1)

TotalWeight(cur) == CumWeight(cur, Len(cur))

\* keep the first n entries, never fewer than min_keep (all, if fewer exist)
truncate(cur, n, min_keep) ==
    SubSeq(cur, 1, Min(Len(cur), Max(n, min_keep)))

(***************************************************************************)
(* History and RNG of a stage (specification 3).                           *)
(***************************************************************************)
NoCounts == [t \in Tokens |-> 0]

\* the next state of a stage's private generator
rng_next(s) == (5 * s + 3) % 8

(***************************************************************************)
(* Stages of the native library (specification 4.2).  A stage is a record  *)
(* of its kind, its parameters cfg, its History (ring, counts, mu) and the *)
(* state rng of its private generator.                                     *)
(***************************************************************************)
\* a pointer returned by the native library: null, or to an object
Ptr(obj) == [null |-> FALSE, obj |-> obj]
NullPtr(obj) == [null |-> TRUE, obj |-> obj]

NoCfg ==
    [seed |-> 0, k |-> 0, p |-> 0, min_keep |-> 0, n_vocab |-> 0,
     special_eos_id |-> 0, linefeed_id |-> 0, penalty_last_n |-> 0,
     penalty_repeat |-> 1, penalty_freq |-> 0, penalty_presence |-> 0,
     penalize_nl |-> FALSE, ignore_eos |-> FALSE, tau |-> 0, eta |-> 0]

\* the History a stage starts with, and has again after a reset
InitRing == <<>>
InitMu(kind, cfg) == IF kind = "mirostat_v2" THEN 2 * cfg.tau ELSE 0

NewStage(kind, cfg) ==
    [kind |-> kind, cfg |-> cfg, ring |-> InitRing, counts |-> NoCounts,
     mu |-> InitMu(kind, cfg), rng |-> cfg.seed]

\* parameters the algorithms accept (specification 4.2 failure semantics, 7)
ValidParams(kind, cfg) ==
    CASE kind = "top_p" -> cfg.p >= 0 /\ cfg.p <= 100 /\ cfg.min_keep >= 1
      [] kind = "penalties" -> cfg.penalty_last_n >= 0
      [] OTHER -> TRUE

\* what an initialiser can return: null when it fails (always, for invalid
\* parameters; possibly, when the allocation fails), else the new stage.
\* A null pointer's obj is the stage that was asked for and not made.
InitReturns(kind, cfg) ==
    IF ValidParams(kind, cfg)
    THEN {NullPtr(NewStage(kind, cfg)), Ptr(NewStage(kind, cfg))}
    ELSE {NullPtr(NewStage(kind, cfg))}

llama_sampler_init_dist(seed) ==
    InitReturns("dist", [NoCfg EXCEPT !.seed = seed])

llama_sampler_init_top_k(k) ==
    InitReturns("top_k", [NoCfg EXCEPT !.k = k])

llama_sampler_init_top_p(p, min_keep) ==
    InitReturns("top_p", [NoCfg EXCEPT !.p = p, !.min_keep = min_keep])

llama_sampler_init_penalties(n_vocab, special_eos_id, linefeed_id, penalty_last_n, penalty_repeat, penalty_freq, penalty_presence, penalize_nl, ignore_eos) ==
    InitReturns("penalties",
        [NoCfg EXCEPT !.n_vocab = n_vocab, !.special_eos_id = special_eos_id,
                      !.linefeed_id = linefeed_id, !.penalty_last_n = penalty_last_n,
                      !.penalty_repeat = penalty_repeat, !.penalty_freq = penalty_freq,
                      !.penalty_presence = penalty_presence,
                      !.penalize_nl = penalize_nl, !.ignore_eos = ignore_eos])

llama_sampler_init_greedy == InitReturns("greedy", NoCfg)

llama_sampler_init_mirostat_v2(seed, tau, eta) ==
    InitReturns("mirostat_v2", [NoCfg EXCEPT !.seed = seed, !.tau = tau, !.eta = eta])

\* the chain takes the stage as its last one
llama_sampler_chain_add(chain, stage) == Append(chain, stage)

(***************************************************************************)
(* transform(Distribution, rng) of each stage kind.  The result is the new *)
(* candidate list cur, the selected token sel and the stage itself (its    *)
(* generator advanced when it drew).                                       *)
(***************************************************************************)
\* the smallest prefix of the sorted list whose probability mass reaches p %
PrefixLen(cur, p) ==
    CHOOSE n \in 0 .. Len(cur) :
        /\ 100 * CumWeight(cur, n) >= p * TotalWeight(cur)
        /\ \A m \in 0 .. (n - 1) : 100 * CumWeight(cur, m) < p * TotalWeight(cur)

\* the logit of an entry after the repetition penalties of stage st
Penalized(st, e) ==
    LET c == IF e.id \in DOMAIN st.counts THEN st.counts[e.id] ELSE 0
        exempt == \/ (~st.cfg.penalize_nl /\ e.id = st.cfg.linefeed_id)
                  \/ (st.cfg.ignore_eos /\ e.id = st.cfg.special_eos_id)
        scaled == IF e.val < 0 THEN e.val * st.cfg.penalty_repeat
                  ELSE e.val \div st.cfg.penalty_repeat
    IN  IF c = 0 \/ exempt THEN e
        ELSE [e EXCEPT !.val = scaled - st.cfg.penalty_freq * c
                                      - st.cfg.penalty_presence]

\* draw with probability proportional to the weight, by the generator state r
Draw(cur, r) ==
    LET x == r % TotalWeight(cur)
        i == CHOOSE n \in 1 .. Len(cur) :
                 /\ CumWeight(cur, n) > x
                 /\ \A m \in 1 .. (n - 1) : CumWeight(cur, m) <= x
    IN  cur[i].id

\* entries whose surprise -log2(P) is at most mu:  P >= 2^-mu
WithinSurprise(cur, mu) ==
    IF mu < 0 THEN 0
    ELSE Cardinality({i \in 1 .. Len(cur) :
                         Weight(cur, i) * Pow2(mu) >= TotalWeight(cur)})

apply_stage(st, cur, sel) ==
    CASE st.kind = "top_k" ->
           [cur |-> truncate(sort_descending(cur), st.cfg.k, 0), sel |-> sel, st |-> st]
      [] st.kind = "top_p" ->
           LET sorted == sort_descending(cur)
           IN  [cur |-> truncate(sorted, PrefixLen(sorted, st.cfg.p), st.cfg.min_keep),
                sel |-> sel, st |-> st]
      [] st.kind = "penalties" ->
           [cur |-> [i \in 1 .. Len(cur) |-> Penalized(st, cur[i])],
            sel |-> sel, st |-> st]
      [] st.kind = "greedy" ->
           [cur |-> cur, sel |-> IF cur = <<>> THEN sel ELSE cur[Best(cur)].id, st |-> st]
      [] st.kind = "dist" ->
           IF cur = <<>> THEN [cur |-> cur, sel |-> sel, st |-> st]
           ELSE [cur |-> cur, sel |-> Draw(cur, st.rng),
                 st |-> [st EXCEPT !.rng = rng_next(st.rng)]]
      [] st.kind = "mirostat_v2" ->
           IF cur = <<>> THEN [cur |-> cur, sel |-> sel, st |-> st]
           ELSE LET sorted == sort_descending(cur)
                    kept == truncate(sorted, WithinSurprise(sorted, st.mu), 1)
                IN  [cur |-> kept, sel |-> Draw(kept, st.rng),
                     st |-> [st EXCEPT !.rng = rng_next(st.rng)]]
      [] OTHER -> [cur |-> cur, sel |-> sel, st |-> st]

\* accept(token_id) of a stage; surprise is -log2 of the probability the
\* accepted token had, which the caller's distribution determines
accept_stage(st, token, surprise) ==
    CASE st.kind = "penalties" ->
           IF st.cfg.penalty_last_n <= 0 THEN st
           ELSE IF Len(st.ring) < st.cfg.penalty_last_n
           THEN [st EXCEPT !.ring = Append(@, token), !.counts[token] = @ + 1]
           ELSE LET old == Head(st.ring)
                    dec == [st.counts EXCEPT ![old] = @ - 1]
                IN  [st EXCEPT !.ring = Append(Tail(@), token),
                               !.counts = [dec EXCEPT ![token] = @ + 1]]
      [] st.kind = "mirostat_v2" ->
           [st EXCEPT !.mu = @ + st.cfg.eta * (st.cfg.tau - surprise)]
      [] OTHER -> st

\* reset of a stage: the History and the generator as after construction
reset_stage(st) == NewStage(st.kind, st.cfg)

(***************************************************************************)
(* The native chain: sample, accept, reset.                                *)
(***************************************************************************)
\* runs stages i .. Len(stages) in order on (cur, sel); ran lists the stages run
RECURSIVE apply_chain(_, _, _, _, _)
apply_chain(stages, i, cur, sel, ran) ==
    IF i > Len(stages) THEN [stages |-> stages, cur |-> cur, sel |-> sel, ran |-> ran]
    ELSE LET r == apply_stage(stages[i], cur, sel)
         IN  apply_chain([stages EXCEPT ![i] = r.st], i + 1, r.cur, r.sel,
                         Append(ran, [kind |-> stages[i].kind, cfg |-> stages[i].cfg]))

\* a step that selects no token (an empty distribution, no selecting stage)
\* fails and leaves the chain as it was.  The return type is a bare token id,
\* so the failure comes back as NoToken, an id outside every vocabulary.
llama_sampler_sample(stages, logits) ==
    LET r == apply_chain(stages, 1, from_logits(logits), NoToken, <<>>)
    IN  IF r.sel = NoToken
        THEN [ok |-> FALSE, token |-> NoToken, stages |-> stages, ran |-> r.ran]
        ELSE [ok |-> TRUE, token |-> r.sel, stages |-> r.stages, ran |-> r.ran]

llama_sampler_accept(stages, token, surprise) ==
    [i \in 1 .. Len(stages) |-> accept_stage(stages[i], token, surprise)]

llama_sampler_reset(stages) ==
    [i \in 1 .. Len(stages) |-> reset_stage(stages[i])]

\* a new chain has no stages; null when the allocation fails
llama_sampler_chain_init(chain_params) == {NullPtr(<<>>), Ptr(<<>>)}

\* how often handle h occurs in the chain's handle list hs
HeldCount(hs, h) == Cardinality({i \in 1 .. Len(hs) : hs[i] = h})

\* releasing the chain releases every stage handle it holds
llama_sampler_free(fr, hs) == [h \in 1 .. Len(fr) |-> fr[h] + HeldCount(hs, h)]

(***************************************************************************)
(* LlamaSamplerChainParams (params.rs).                                    *)
(***************************************************************************)
\* what the native struct holds beside no_perf
OtherFields == 0 .. 3

\* the native defaults: no_perf is true (doc tests, params.rs 16, 52, 64)
llama_sampler_chain_default_params ==
    {[no_perf |-> TRUE, other |-> o] : o \in OtherFields}

\* impl Default: the wrapper around the native defaults
default == {[sampler_chain_params |-> n] : n \in llama_sampler_chain_default_params}

\* mutant: the assignment to no_perf is missing
with_no_perf_unassigned(self, b) == self

with_no_perf(self, b) ==
    [self EXCEPT !.sampler_chain_params.no_perf = b]

no_perf(self) == self.sampler_chain_params.no_perf

(***************************************************************************)
(* State.                                                                  *)
(***************************************************************************)
VARIABLES
    params,        \* the LlamaSamplerChainParams value being built
    params0,       \* the value Default::default() returned
    withCalls,     \* the arguments of the with_no_perf calls made on it
    sampler,       \* the LlamaSampler value: "none", "live" or "dropped"
    chainParams,   \* the parameters the native chain was made with
    stages,        \* the native chain's stage list
    handles,       \* the stage handles the chain holds, in order
    allocated,     \* number of stage handles the initialisers returned
    frees,         \* how often each stage handle was released
    chainFrees,    \* how often the chain handle was released
    useAfterFree,  \* a native call was made on a released chain handle
    panicked,      \* an expect() failed
    result,        \* what the last sample() returned
    native,        \* the last llama_sampler_sample call: index passed, outcome
    lastIdx,       \* the idx argument of the last sample()
    lastOp,        \* the method called last
    ncalls,        \* sample/accept/reset calls so far
    used,          \* sample() or accept() has been called
    registered,    \* the stages the add_* calls registered, in call order
    invalidAdd,    \* an add_* call was made with invalid parameters
    acceptLog,     \* tokens accepted since construction or the last reset
                   \* (kept where the ring buffer is checked against it)
    addedAt,       \* per stage: length of acceptLog when it was added or reset
    fresh,         \* replay: stage list of the freshly constructed chain
    outUsed,       \* replay: outcomes of the used-and-reset chain's samples
    outFresh,      \* replay: outcomes of the fresh chain's samples
    phase          \* replay: "use" until the reset, then "replay"

paramVars == <<params, params0, withCalls>>
chainVars == <<sampler, chainParams, stages, handles, allocated, frees, chainFrees,
               useAfterFree, panicked, result, native, lastIdx, lastOp, ncalls,
               used, registered, invalidAdd, acceptLog, addedAt>>
replayVars == <<fresh, outUsed, outFresh, phase>>
vars == <<paramVars, chainVars, replayVars>>

ownerVars == <<sampler, chainParams, handles, allocated, frees, chainFrees, panicked>>
callVars == <<result, native, lastIdx>>

(***************************************************************************)
(* LlamaSampler (sampler_chain.rs).                                        *)
(***************************************************************************)
\* i32::try_from(i) for a u32 i
i32_try_from(i) ==
    IF i <= I32Max THEN [ok |-> TRUE, v |-> i] ELSE [ok |-> FALSE, v |-> 0]

unwrap_or(r, d) == IF r.ok THEN r.v ELSE d

\* line 234: idx.map(|i| i32::try_from(i).unwrap_or(-1)).unwrap_or(-1)
\* mutant: the index is cast (i as i32) and wraps, instead of try_from
native_idx_cast(idx) ==
    IF ~idx.some THEN -1
    ELSE IF idx.v > I32Max THEN idx.v - Pow2(IndexBits) ELSE idx.v

native_idx(idx) ==
    LET mapped == IF idx.some THEN Some(unwrap_or(i32_try_from(idx.v), -1)) ELSE None
    IN  IF mapped.some THEN mapped.v ELSE -1

\* every native call takes self.sampler.as_ptr()
NativeCall == useAfterFree' = (useAfterFree \/ chainFrees > 0)

\* mutant: the value goes away without llama_sampler_free
Drop_without_free ==
    /\ sampler' = "dropped"
    /\ UNCHANGED <<chainFrees, frees, useAfterFree>>

\* impl Drop: llama_sampler_free(self.sampler.as_ptr())
Drop ==
    /\ sampler' = "dropped"
    /\ chainFrees' = chainFrees + 1
    /\ frees' = llama_sampler_free(frees, handles)
    /\ NativeCall

new(sampler_chain_params) ==
    /\ sampler = "none" /\ ~panicked
    /\ lastOp' = "new"
    /\ \E ptr \in llama_sampler_chain_init(sampler_chain_params.sampler_chain_params) :
         IF ptr.null
         THEN /\ panicked' = TRUE
              /\ UNCHANGED <<sampler, chainParams, stages>>
         ELSE /\ sampler' = "live"
              /\ chainParams' = sampler_chain_params.sampler_chain_params
              /\ stages' = ptr.obj
              /\ UNCHANGED panicked
    /\ UNCHANGED <<handles, allocated, frees, chainFrees, useAfterFree, callVars,
                   used, registered, invalidAdd, acceptLog, addedAt>>

\* .expect(..) on a null initialiser result: the panic unwinds through the
\* method, which owns self, so self is dropped
expect_failed ==
    /\ panicked' = TRUE
    /\ Drop
    /\ UNCHANGED <<chainParams, stages, handles, allocated, callVars, used,
                   registered, acceptLog, addedAt>>

\* llama_sampler_chain_add(self.sampler.as_ptr(), stage.as_ptr()); self
chain_added(ptr) ==
    /\ stages' = llama_sampler_chain_add(stages, ptr.obj)
    /\ allocated' = allocated + 1
    /\ handles' = Append(handles, allocated + 1)
    /\ frees' = Append(frees, 0)
    /\ registered' = Append(registered, [kind |-> ptr.obj.kind, cfg |-> ptr.obj.cfg])
    /\ addedAt' = Append(addedAt, Len(acceptLog))
    /\ NativeCall
    /\ UNCHANGED <<sampler, chainParams, chainFrees, panicked, callVars, used,
                   acceptLog>>

add_dist(seed) ==
    /\ sampler = "live"
    /\ lastOp' = "add_dist"
    /\ UNCHANGED invalidAdd
    /\ \E ptr \in llama_sampler_init_dist(seed) :
         IF ptr.null THEN expect_failed ELSE chain_added(ptr)

add_top_k(top_k) ==
    /\ sampler = "live"
    /\ lastOp' = "add_top_k"
    /\ UNCHANGED invalidAdd
    /\ \E ptr \in llama_sampler_init_top_k(top_k) :
         IF ptr.null THEN expect_failed ELSE chain_added(ptr)

\* mutant: the initialiser's result is added without the null check
add_top_p_unchecked(top_p, min_keep) ==
    /\ sampler = "live"
    /\ lastOp' = "add_top_p"
    /\ invalidAdd' = (invalidAdd \/ top_p < 0 \/ top_p > 100 \/ min_keep = 0)
    /\ \E ptr \in llama_sampler_init_top_p(top_p, min_keep) : chain_added(ptr)

add_top_p(top_p, min_keep) ==
    /\ sampler = "live"
    /\ lastOp' = "add_top_p"
    /\ invalidAdd' = (invalidAdd \/ top_p < 0 \/ top_p > 100 \/ min_keep = 0)
    /\ \E ptr \in llama_sampler_init_top_p(top_p, min_keep) :
         IF ptr.null THEN expect_failed ELSE chain_added(ptr)

add_penalties(n_vocab, special_eos_id, linefeed_id, penalty_last_n, penalty_repeat, penalty_freq, penalty_presence, penalize_nl, ignore_eos) ==
    /\ sampler = "live"
    /\ lastOp' = "add_penalties"
    /\ invalidAdd' = (invalidAdd \/ penalty_last_n < 0)
    /\ \E ptr \in llama_sampler_init_penalties(n_vocab, special_eos_id, linefeed_id,
                      penalty_last_n, penalty_repeat, penalty_freq, penalty_presence,
                      penalize_nl, ignore_eos) :
         IF ptr.null THEN expect_failed ELSE chain_added(ptr)

\* mutant: the chain_add call is duplicated
add_greedy_twice ==
    /\ sampler = "live"
    /\ lastOp' = "add_greedy"
    /\ UNCHANGED invalidAdd
    /\ \E ptr \in llama_sampler_init_greedy :
         IF ptr.null THEN expect_failed
         ELSE /\ stages' = llama_sampler_chain_add(llama_sampler_chain_add(stages, ptr.obj), ptr.obj)
              /\ allocated' = allocated + 1
              /\ handles' = handles \o <<allocated + 1, allocated + 1>>
              /\ frees' = Append(frees, 0)
              /\ registered' = Append(registered, [kind |-> ptr.obj.kind, cfg |-> ptr.obj.cfg])
              /\ addedAt' = addedAt \o <<Len(acceptLog), Len(acceptLog)>>
              /\ NativeCall
              /\ UNCHANGED <<sampler, chainParams, chainFrees, panicked, callVars, used, acceptLog>>

add_greedy ==
    /\ sampler = "live"
    /\ lastOp' = "add_greedy"
    /\ UNCHANGED invalidAdd
    /\ \E ptr \in llama_sampler_init_greedy :
         IF ptr.null THEN expect_failed ELSE chain_added(ptr)

add_mirostat_v2(seed, tau, eta) ==
    /\ sampler = "live"
    /\ lastOp' = "add_mirostat_v2"
    /\ UNCHANGED invalidAdd
    /\ \E ptr \in llama_sampler_init_mirostat_v2(seed, tau, eta) :
         IF ptr.null THEN expect_failed ELSE chain_added(ptr)

\* mutant: llama_perf_sampler_reset is called (as in reset_timings), which
\* clears the timings and no stage
reset_timings_only ==
    /\ sampler = "live"
    /\ lastOp' = "reset"
    /\ NativeCall
    /\ acceptLog' = <<>>
    /\ addedAt' = [i \in 1 .. Len(addedAt) |-> 0]
    /\ UNCHANGED <<stages, ownerVars, callVars, used, registered, invalidAdd>>

\* the History is as after construction from here on
reset ==
    /\ sampler = "live"
    /\ lastOp' = "reset"
    /\ stages' = llama_sampler_reset(stages)
    /\ NativeCall
    /\ acceptLog' = <<>>
    /\ addedAt' = [i \in 1 .. Len(addedAt) |-> 0]
    /\ UNCHANGED <<ownerVars, callVars, used, registered, invalidAdd>>

\* mutant: the sampled token is also accepted
sample_accepting(ctx, idx) ==
    /\ sampler = "live"
    /\ lastOp' = "sample"
    /\ lastIdx' = idx
    /\ LET i == native_idx(idx)
           r == llama_sampler_sample(stages, ctx)
       IN  /\ stages' = IF r.ok THEN llama_sampler_accept(r.stages, r.token, 0)
                         ELSE r.stages
           /\ native' = [idx |-> i, ok |-> r.ok, ran |-> r.ran]
           /\ result' = [kind |-> "token", id |-> r.token]
    /\ NativeCall
    /\ used' = TRUE
    /\ UNCHANGED <<ownerVars, registered, invalidAdd, acceptLog, addedAt>>

\* ctx stands for the logits of the output the context holds at idx
sample(ctx, idx) ==
    /\ sampler = "live"
    /\ lastOp' = "sample"
    /\ lastIdx' = idx
    /\ LET i == native_idx(idx)
           r == llama_sampler_sample(stages, ctx)
       IN  /\ stages' = r.stages
           /\ native' = [idx |-> i, ok |-> r.ok, ran |-> r.ran]
           /\ result' = [kind |-> "token", id |-> r.token]
    /\ NativeCall
    /\ used' = TRUE
    /\ UNCHANGED <<ownerVars, registered, invalidAdd, acceptLog, addedAt>>

\* mutant: llama_sampler_reset is called, as in the method above it
accept_calls_reset(token, surprise) ==
    /\ sampler = "live"
    /\ lastOp' = "accept"
    /\ stages' = llama_sampler_reset(stages)
    /\ NativeCall
    /\ used' = TRUE
    /\ UNCHANGED <<ownerVars, callVars, registered, invalidAdd, addedAt>>

\* surprise: see accept_stage
accept(token, surprise) ==
    /\ sampler = "live"
    /\ lastOp' = "accept"
    /\ stages' = llama_sampler_accept(stages, token, surprise)
    /\ NativeCall
    /\ used' = TRUE
    /\ UNCHANGED <<ownerVars, callVars, registered, invalidAdd, addedAt>>

\* the value goes out of scope
drop ==
    /\ sampler = "live"
    /\ lastOp' = "drop"
    /\ Drop
    /\ UNCHANGED <<chainParams, stages, handles, allocated, panicked, callVars,
                   used, registered, invalidAdd, acceptLog, addedAt>>

(***************************************************************************)
(* Inputs.                                                                 *)
(***************************************************************************)
Seeds == {1}
TopKs == {1}
TopPs == {50, 150}
MinKeeps == {0, 1}
LastNs == {-1, 2}
Surprises == {0, 2}
\* the logits the context holds: none (empty vocabulary), or one per token,
\* all equal or one token raised to MaxScore
Flat == [i \in 1 .. NVocab |-> 0]
Peak(t) == [i \in 1 .. NVocab |-> IF i = t + 1 THEN MaxScore ELSE 0]
Ctxs == {<<>>, Flat} \cup {Peak(t) : t \in Tokens}
Idxs == {None, Some(0), Some(I32Max), Some(I32Max + 1), Some(U32Max)}

InitParams == CHOOSE d \in default : d.sampler_chain_params.other = 0

NoResult == [kind |-> "none", id |-> NoToken]
NoNative == [idx |-> 0, ok |-> FALSE, ran |-> <<>>]

InitChain ==
    /\ sampler = "none"
    /\ chainParams = [no_perf |-> TRUE, other |-> 0]
    /\ stages = <<>>
    /\ handles = <<>>
    /\ allocated = 0
    /\ frees = <<>>
    /\ chainFrees = 0
    /\ useAfterFree = FALSE
    /\ panicked = FALSE
    /\ result = NoResult
    /\ native = NoNative
    /\ lastIdx = None
    /\ lastOp = "none"
    /\ ncalls = 0
    /\ used = FALSE
    /\ registered = <<>>
    /\ invalidAdd = FALSE
    /\ acceptLog = <<>>
    /\ addedAt = <<>>

InitReplay ==
    /\ fresh = <<>>
    /\ outUsed = <<>>
    /\ outFresh = <<>>
    /\ phase = "use"

(***************************************************************************)
(* The chain's life: new, add_*, sample/accept/reset in any order, drop.   *)
(***************************************************************************)
Init ==
    /\ params = InitParams
    /\ params0 = InitParams
    /\ withCalls = <<>>
    /\ InitChain
    /\ InitReplay

Building == Len(stages) < MaxStages /\ UNCHANGED <<ncalls, paramVars, replayVars>>
Calling == ncalls < MaxCalls /\ ncalls' = ncalls + 1 /\ UNCHANGED <<paramVars, replayVars>>
Unlogged == UNCHANGED acceptLog

New == new(params) /\ UNCHANGED <<ncalls, paramVars, replayVars>>
AddDist == Building /\ \E seed \in Seeds : add_dist(seed)
AddTopK == Building /\ \E k \in TopKs : add_top_k(k)
AddTopP == Building /\ \E p \in TopPs, min_keep \in MinKeeps : add_top_p(p, min_keep)
AddPenalties ==
    Building /\ \E last_n \in LastNs :
                    add_penalties(NVocab, NVocab - 1, 0, last_n, 1, 1, 0, TRUE, FALSE)
AddGreedy == Building /\ add_greedy
AddMirostatV2 == Building /\ add_mirostat_v2(0, 1, 1)
Reset == Calling /\ reset
Sample == Calling /\ \E ctx \in Ctxs : sample(ctx, None)
Accept == Calling /\ Unlogged /\ \E token \in Tokens : accept(token, 0)
DropIt == drop /\ UNCHANGED <<ncalls, paramVars, replayVars>>

Next ==
    \/ New
    \/ AddDist
    \/ AddTopK
    \/ AddTopP
    \/ AddPenalties
    \/ AddGreedy
    \/ Reset
    \/ Sample
    \/ Accept
    \/ DropIt

Spec == Init /\ [][Next]_vars

(***************************************************************************)
(* The stages that keep History (penalties, mirostat), with a selecting    *)
(* stage, under sample/accept/reset.                                       *)
(***************************************************************************)
AcceptSurprise ==
    Calling /\ Unlogged /\ \E token \in Tokens, s \in Surprises : accept(token, s)

NextHistory ==
    \/ New
    \/ AddPenalties
    \/ AddMirostatV2
    \/ AddGreedy
    \/ Reset
    \/ Sample
    \/ AcceptSurprise

SpecHistory == Init /\ [][NextHistory]_vars

(***************************************************************************)
(* The repetition ring buffer against the log of accepted tokens.          *)
(***************************************************************************)
AcceptLogged ==
    Calling /\ \E token \in Tokens :
                   accept(token, 0) /\ acceptLog' = Append(acceptLog, token)

NextRing ==
    \/ New
    \/ AddPenalties
    \/ AddGreedy
    \/ Reset
    \/ AcceptLogged

SpecRing == Init /\ [][NextRing]_vars

(***************************************************************************)
(* The index argument of sample(): every kind of index, on short chains.   *)
(***************************************************************************)
SampleAt == Calling /\ \E ctx \in Ctxs, idx \in Idxs : sample(ctx, idx)

NextIdx ==
    \/ New
    \/ AddTopK
    \/ AddGreedy
    \/ SampleAt
    \/ DropIt

SpecIdx == Init /\ [][NextIdx]_vars

(***************************************************************************)
(* Building a LlamaSamplerChainParams value: default(), then any sequence  *)
(* of with_no_perf calls, then new().                                      *)
(***************************************************************************)
InitP ==
    /\ params \in default
    /\ params0 = params
    /\ withCalls = <<>>
    /\ InitChain
    /\ InitReplay

WithNoPerf ==
    /\ sampler = "none" /\ ~panicked
    /\ Len(withCalls) < MaxWith
    /\ \E b \in BOOLEAN :
         /\ params' = with_no_perf(params, b)
         /\ withCalls' = Append(withCalls, b)
    /\ UNCHANGED <<params0, chainVars, replayVars>>

NextP ==
    \/ WithNoPerf
    \/ New

SpecParams == InitP /\ [][NextP]_vars

(***************************************************************************)
(* Replay: a chain is built and used, then reset; from then on every call  *)
(* is also made on a chain freshly built by the same new and add_* calls.  *)
(***************************************************************************)
\* the stage list after new() and the registered add_* calls
FreshChain == [i \in 1 .. Len(registered) |-> NewStage(registered[i].kind, registered[i].cfg)]

Using == phase = "use" /\ ncalls < MaxCalls - 1 /\ ncalls' = ncalls + 1
           /\ UNCHANGED <<paramVars, replayVars>>

UseSample == Using /\ \E ctx \in Ctxs : sample(ctx, None)
UseAccept == Using /\ Unlogged /\ \E token \in Tokens, s \in Surprises : accept(token, s)

ResetForReplay ==
    /\ phase = "use" /\ used
    /\ reset
    /\ phase' = "replay"
    /\ fresh' = FreshChain
    /\ ncalls' = 0
    /\ UNCHANGED <<paramVars, outUsed, outFresh>>

ReplaySample ==
    /\ phase = "replay" /\ ncalls < MaxReplay
    /\ \E ctx \in Ctxs :
         /\ sample(ctx, None)
         /\ LET r == llama_sampler_sample(fresh, ctx)
            IN  /\ fresh' = r.stages
                /\ outFresh' = Append(outFresh, r.token)
    /\ outUsed' = Append(outUsed, result'.id)
    /\ ncalls' = ncalls + 1
    /\ UNCHANGED <<paramVars, phase>>

ReplayAccept ==
    /\ phase = "replay" /\ ncalls < MaxReplay
    /\ \E token \in Tokens, s \in Surprises :
         /\ accept(token, s)
         /\ fresh' = llama_sampler_accept(fresh, token, s)
    /\ Unlogged
    /\ ncalls' = ncalls + 1
    /\ UNCHANGED <<paramVars, phase, outUsed, outFresh>>

NextReplay ==
    \/ New
    \/ (phase = "use" /\ AddDist)
    \/ (phase = "use" /\ AddPenalties)
    \/ (phase = "use" /\ AddMirostatV2)
    \/ UseSample
    \/ UseAccept
    \/ ResetForReplay
    \/ ReplaySample
    \/ ReplayAccept

SpecReplay == Init /\ [][NextReplay]_vars

(***************************************************************************)
(* Properties.                                                             *)
(***************************************************************************)
\* the History of a stage: repetition ring buffer, its counts, mu tracker
History(st) == [ring |-> st.ring, counts |-> st.counts, mu |-> st.mu]

\* the kinds and parameters of a stage list, in order
Static(sts) == [i \in 1 .. Len(sts) |-> [kind |-> sts[i].kind, cfg |-> sts[i].cfg]]

AddOps == {"add_dist", "add_top_k", "add_top_p", "add_penalties", "add_greedy",
           "add_mirostat_v2"}

HasKind(kind) == \E i \in 1 .. Len(stages) : stages[i].kind = kind

\* C1: a sample() call leaves the History of every stage as it was; the
\* History of a stage changes only in accept(token) and reset().
C1_SampleKeepsHistory ==
    [][/\ lastOp' = "sample" =>
            /\ Len(stages') = Len(stages)
            /\ \A i \in 1 .. Len(stages) : History(stages'[i]) = History(stages[i])
       /\ (\E i \in 1 .. Len(stages) : History(stages'[i]) # History(stages[i])) =>
            lastOp' \in {"accept", "reset"}]_vars

\* C1 witness: a successful sample() on a chain whose ring buffer and mu
\* tracker both hold accepted history.
C1_Witness ==
    /\ lastOp = "sample" /\ native.ok
    /\ \E i \in 1 .. Len(stages) : stages[i].ring # <<>>
    /\ \E i \in 1 .. Len(stages) :
         stages[i].kind = "mirostat_v2" /\ stages[i].mu # 2 * stages[i].cfg.tau

\* C2: a sample() that fails returns an error and no token to the caller,
\* and leaves the History, the RNG state and the stage list of the chain as
\* they were before the call.
C2_FailedSampleIsError ==
    [][(lastOp' = "sample" /\ ~native'.ok) =>
            /\ result'.kind = "error"
            /\ stages' = stages]_vars

\* a stage whose parameters the claim calls invalid
InvalidStage(st) ==
    \/ st.kind = "top_p" /\ (st.cfg.min_keep = 0 \/ st.cfg.p < 0 \/ st.cfg.p > 100)
    \/ st.kind = "penalties" /\ st.cfg.penalty_last_n < 0

\* C3: an add_* call with invalid parameters fails at chain-build time (the
\* call panics and the chain is gone), and no chain on which sample() or
\* accept() can be called holds an invalidly parameterised stage.
C3_InvalidStageRejected ==
    /\ invalidAdd => (panicked /\ sampler = "dropped")
    /\ sampler = "live" => \A i \in 1 .. Len(stages) : ~InvalidStage(stages[i])

\* C3 witness: add_top_p was called with invalid parameters and panicked.
C3_Witness == invalidAdd /\ panicked /\ lastOp = "add_top_p"

InitialHistory(st) ==
    [ring |-> <<>>, counts |-> [t \in Tokens |-> 0],
     mu |-> IF st.kind = "mirostat_v2" THEN 2 * st.cfg.tau ELSE 0]

\* C5: reset() sets the History of every stage back to its initial value
\* and leaves the stage parameters and the stage order unchanged.
C5_ResetClearsHistory ==
    [][lastOp' = "reset" =>
            /\ Static(stages') = Static(stages)
            /\ \A i \in 1 .. Len(stages) : History(stages'[i]) = InitialHistory(stages[i])]_vars

\* C5 witness: a reset() of a used chain with a penalties stage and a
\* mirostat stage, after two other calls.
C5_Witness ==
    /\ lastOp = "reset" /\ used /\ ncalls = 3
    /\ HasKind("penalties") /\ HasKind("mirostat_v2")

Seen(i) == SubSeq(acceptLog, addedAt[i] + 1, Len(acceptLog))

\* C7: the ring buffer of a penalties stage holds the last
\* min(accepts since construction or reset, penalty_last_n) accepted tokens
\* in order, and each token's count is its number of occurrences in them.
C7_RingIsWindow ==
    \A i \in 1 .. Len(stages) :
        stages[i].kind = "penalties" =>
            LET n == stages[i].cfg.penalty_last_n
                w == Min(Len(Seen(i)), n)
                window == SubSeq(Seen(i), Len(Seen(i)) - w + 1, Len(Seen(i)))
            IN  /\ stages[i].ring = window
                /\ \A t \in Tokens :
                     stages[i].counts[t] =
                        Cardinality({j \in 1 .. Len(window) : window[j] = t})

\* C7 witness: the same token accepted three times with penalty_last_n = 2
\* gives count 2.
C7_Witness ==
    \E i \in 1 .. Len(stages), t \in Tokens :
        /\ stages[i].kind = "penalties" /\ stages[i].cfg.penalty_last_n = 2
        /\ Seen(i) = <<t, t, t>>
        /\ stages[i].counts[t] = 2

\* C8: the chain handle is released exactly once (when the value is
\* dropped, also by a panic in add_*), no native call is made on it after
\* its release, and every stage handle is held by the chain exactly once
\* and released exactly once, with the chain.
C8_HandlesReleasedOnce ==
    /\ ~useAfterFree
    /\ chainFrees = (IF sampler = "dropped" THEN 1 ELSE 0)
    /\ Len(frees) = allocated
    /\ \A h \in 1 .. allocated :
         /\ HeldCount(handles, h) = 1
         /\ frees[h] = (IF sampler = "dropped" THEN 1 ELSE 0)
    /\ sampler = "none" => allocated = 0

\* C8 witness: a stage initialiser returned null after a stage had been
\* added; the panic released the chain and its stage.
C8_Witness ==
    /\ panicked /\ sampler = "dropped" /\ allocated >= 1
    /\ chainFrees = 1

\* C9: default().no_perf() is true; after with_no_perf calls no_perf()
\* returns the argument of the last one; with_no_perf changes no other field.
C9_NoPerfRoundTrip ==
    /\ no_perf(params0)
    /\ withCalls = <<>> => no_perf(params) = TRUE
    /\ withCalls # <<>> => no_perf(params) = withCalls[Len(withCalls)]
    /\ params.sampler_chain_params.other = params0.sampler_chain_params.other
    /\ sampler = "live" => chainParams = params.sampler_chain_params

\* C9 witness: with_no_perf(true) then with_no_perf(false): no_perf() is false.
C9_Witness ==
    /\ Len(withCalls) >= 2
    /\ withCalls[Len(withCalls) - 1] = TRUE /\ withCalls[Len(withCalls)] = FALSE
    /\ no_perf(params) = FALSE

\* C10: the native index is i for Some(i) with i <= i32::MAX and -1 for
\* None and for Some(i) with i > i32::MAX; the call reports no error.
C10_IndexOrLast ==
    lastOp = "sample" =>
        /\ native.idx = (IF lastIdx.some /\ lastIdx.v <= I32Max THEN lastIdx.v ELSE -1)
        /\ native.idx \in (-1) .. I32Max
        /\ result.kind = "token" /\ ~panicked

\* C10 witness: an index just above i32::MAX was passed and -1 went to the
\* native sampler.
C10_Witness ==
    /\ lastOp = "sample"
    /\ lastIdx = Some(I32Max + 1)
    /\ native.idx = -1

==========================================================================
